---- MODULE Spec2Model ----
(***************************************************************************)
(* Model of src/dataset.py: the Dataset class of snapshot-gnss-data.       *)
(*                                                                         *)
(* State: the directory the dataset is built from (meta.json, the ground   *)
(* truth files found by glob, the content of the snapshot file that is     *)
(* read), the attributes of the Dataset object, and the last call with its *)
(* outcome.  One action per method.                                        *)
(*                                                                         *)
(* Numbers.  int8 samples are integers.  float32 values are pairs <<m, e>> *)
(* standing for m / 2^e with |m| <= 2^24, rounded to nearest-even as IEEE  *)
(* single precision does.  Lengths and coordinates of the ground truth are *)
(* exact rationals <<num, den>>; the double rounding of pymap3d, GEOS and  *)
(* numpy.linalg.norm is not modelled, and distances are kept as their      *)
(* squares.  Geodetic coordinates are integers on a grid on which one unit *)
(* of latitude or longitude is one metre of north or east.                 *)
(***************************************************************************)
EXTENDS Integers, Sequences, FiniteSets, TLC

VARIABLES
    meta,                   \* content of meta.json (input)
    gt_files,               \* ground truth files in discovery order (input)
    disk,                   \* bytes of the snapshot file a read returns (input)
    pc,                     \* "new", "ready" (constructed) or "failed" (__init__ raised)
    intermediate_frequency, \* self._intermediate_frequency
    filenames,              \* self._filenames
    timestamps,             \* self._timestamps
    temperatures,           \* self._temperatures
    pressures,              \* self._pressures
    ground_truth,           \* self._ground_truth
    ref_location,           \* self._ref_location
    track,                  \* self._track
    last                    \* the last call: method, arguments, outcome, file read

attrs == <<intermediate_frequency, filenames, timestamps, temperatures,
           pressures, ground_truth, ref_location, track>>
inputs == <<meta, gt_files, disk>>
vars == <<meta, gt_files, disk, pc, intermediate_frequency, filenames,
          timestamps, temperatures, pressures, ground_truth, ref_location,
          track, last>>

-----------------------------------------------------------------------------
(* Bounds of the model *)

\* Stand-in for the 6138 bytes of a snapshot: bytes read per snapshot.
BytesPerSnapshot == 3
\* Byte values of file contents: 0..ByteSpan and 255.
ByteSpan == 1
\* Largest number of snapshot file names in meta.json.
MaxN == 2
\* Largest number of ground truth files found.
MaxSources == 2

(* Program constants *)
BitsPerByte == 8
Float32Precision == 24

-----------------------------------------------------------------------------
(* Python values *)

None == [tag |-> "None"]
Unset == [tag |-> "unset"]          \* attribute never assigned
Absent == [tag |-> "absent"]        \* key not in meta.json
Some(v) == [tag |-> "value", v |-> v]
IsSome(x) == x.tag = "value"

Ok(v) == [kind |-> "ok", v |-> v]
Raised(e) == [kind |-> "raise", v |-> e]
Returned(x) == [kind |-> "return", v |-> x]   \* returns an attribute as stored

Min(a, b) == IF a < b THEN a ELSE b
Abs(a) == IF a < 0 THEN -a ELSE a

Pow2(k) == 2 ^ k

RECURSIVE Gcd(_, _)
Gcd(a, b) == IF b = 0 THEN a ELSE Gcd(b, a % b)

-----------------------------------------------------------------------------
(* The directory: inputs of __init__ and of the file reads *)

Point(lat, lon) == [latitude |-> lat, longitude |-> lon]

\* Ground truth nodes; every difference of two of them has an integer length.
PA == Point(0, 0)
PB == Point(0, 100)
PC == Point(75, 100)

\* A ground truth file: its ending and the nodes its parsing yields.
GtFile(ending, points) == [ending |-> ending, points |-> points]

GtFileInputs ==
    { GtFile("gpx", <<PA, PB>>), GtFile("kml", <<PB, PC>>),
      GtFile("gpx", <<PC, PA>>), GtFile("kml", <<PA, PB, PC>>),
      GtFile("gpx", <<PB>>), GtFile("kml", <<>>), GtFile("txt", <<PA, PB>>) }

RECURSIVE SeqsUpTo(_, _)
SeqsUpTo(S, n) ==
    IF n = 0 THEN { <<>> }
    ELSE LET shorter == SeqsUpTo(S, n - 1)
         IN  shorter \cup { Append(q, x) : q \in shorter, x \in S }

GtInputs == SeqsUpTo(GtFileInputs, MaxSources)

ByteVals == (0 .. ByteSpan) \cup {255}
ZeroFile == [k \in 1 .. BytesPerSnapshot |-> 0]
\* Files of up to the snapshot length, and one that is longer.
FileInputs == SeqsUpTo(ByteVals, BytesPerSnapshot) \cup { Append(ZeroFile, 255) }

DateStrings == <<"2021-04-21T15:11:44", "2021-04-21T15:11:56">>
BadDateStrings == <<"2021-04-21T15:11:44", "21/04/2021">>

FileNames(n) == [k \in 1 .. n |-> k]

MetaInputs ==
    { [tag |-> "unreadable"] } \cup
    [ tag : {"json"},
      intermediate_frequency : {Absent, Some(4092000)},
      file : {Absent} \cup { Some(FileNames(n)) : n \in 0 .. MaxN },
      timestamp : {Absent, Some(DateStrings), Some(BadDateStrings)},
      temperature : {Absent, Some(<<21, 22>>)},
      pressure : {Absent, Some(<<101325, 101300>>)},
      latitude : {Absent, Some(0)},
      longitude : {Absent, Some(100)} ]

FullMeta ==
    [ tag |-> "json",
      intermediate_frequency |-> Some(4092000),
      file |-> Some(FileNames(MaxN)),
      timestamp |-> Some(DateStrings),
      temperature |-> Some(<<21, 22>>),
      pressure |-> Some(<<101325, 101300>>),
      latitude |-> Some(0),
      longitude |-> Some(100) ]

-----------------------------------------------------------------------------
(* __init__: meta data *)

\* A missing key defaulting to zero.
MetaField_DefaultZero(m, key) == IF IsSome(m[key]) THEN Some(m[key].v) ELSE Some(0)

\* meta_data[key] inside try / except KeyError: the value, or None.
MetaField(m, key) == IF IsSome(m[key]) THEN Some(m[key].v) ELSE None

\* np.datetime64(d): seconds since the epoch; ValueError on any other string.
IsDate(d) == d \in {"2021-04-21T15:11:44", "2021-04-21T15:11:56"}
datetime64(d) ==
    CASE d = "2021-04-21T15:11:44" -> 1619017904
      [] d = "2021-04-21T15:11:56" -> 1619017916

\* Lines 74-82.  A string that does not parse raises ValueError, which no
\* clause catches: "except ValueError()" names an instance, not a class, and
\* matching against it raises TypeError.
TimestampsRaise(m) ==
    /\ IsSome(m.timestamp)
    /\ \E k \in 1 .. Len(m.timestamp.v) : ~IsDate(m.timestamp.v[k])
Timestamps(m) ==
    IF IsSome(m.timestamp)
    THEN Some([k \in 1 .. Len(m.timestamp.v) |-> datetime64(m.timestamp.v[k])])
    ELSE None

-----------------------------------------------------------------------------
(* __init__: ground truth *)

\* pymap3d.geodetic2enu on the metre grid: east, north, up of a position
\* seen from the reference.
geodetic2enu(lat, lon, h, lat0, lon0, h0) == <<lon - lon0, lat - lat0, h - h0>>

Recognized(f) == f.ending \in {"gpx", "kml"}

\* The loop body of lines 106-142 for one file, from the loop state st.
GtStep(st, f) ==
    IF ~st.ok THEN st
    ELSE IF ~Recognized(f) THEN [st EXCEPT !.ok = FALSE, !.error = "ValueError"]
    ELSE IF Len(f.points) = 0 THEN [st EXCEPT !.ok = FALSE, !.error = "IndexError"]
    ELSE LET gt == f.points
             ref == gt[1]
         IN  [ ok |-> TRUE, error |-> "",
               ground_truth |-> gt,
               ref_location |-> ref,
               gt_enu |-> st.gt_enu \o
                   [k \in 1 .. Len(gt) |->
                       geodetic2enu(gt[k].latitude, gt[k].longitude, 0,
                                    ref.latitude, ref.longitude, 0)] ]

\* The loop of lines 105-142 over the first n files.
RECURSIVE GtLoop(_, _)
GtLoop(files, n) ==
    IF n = 0
    THEN [ok |-> TRUE, error |-> "", ground_truth |-> <<>>,
          ref_location |-> PA, gt_enu |-> <<>>]
    ELSE GtStep(GtLoop(files, n - 1), files[n])

\* shapely.geometry.LineString of the east and north of every row.
LineStringRaises(gt_enu) == Len(gt_enu) < 2
LineString(gt_enu) ==
    [tag |-> "LineString",
     v |-> [k \in 1 .. Len(gt_enu) |-> <<gt_enu[k][1], gt_enu[k][2]>>]]

\* Lines 148-157: static ground truth from meta.json.
MetaGroundTruth(m) ==
    IF IsSome(m.latitude) /\ IsSome(m.longitude)
    THEN [tag |-> "dict", v |-> Point(m.latitude.v, m.longitude.v)]
    ELSE None

\* The object __init__ leaves, or the exception it raises.
Constructed(m, g) ==
    LET unset == [ pc |-> "ready",
                   intermediate_frequency |-> Unset, filenames |-> Unset,
                   timestamps |-> Unset, temperatures |-> Unset,
                   pressures |-> Unset, ground_truth |-> Unset,
                   ref_location |-> Unset, track |-> Unset ]
        failed == [unset EXCEPT !.pc = "failed"]
    IN
    IF m.tag = "unreadable" THEN unset
    ELSE IF TimestampsRaise(m) THEN failed
    ELSE
    LET fields == [ unset EXCEPT
                      !.intermediate_frequency = MetaField(m, "intermediate_frequency"),
                      !.filenames = MetaField(m, "file"),
                      !.timestamps = Timestamps(m),
                      !.temperatures = MetaField(m, "temperature"),
                      !.pressures = MetaField(m, "pressure") ]
        loop == GtLoop(g, Len(g))
    IN
    IF Len(g) > 0
    THEN IF ~loop.ok \/ LineStringRaises(loop.gt_enu) THEN failed
         ELSE [ fields EXCEPT
                  !.ground_truth = [tag |-> "list", v |-> loop.ground_truth],
                  !.ref_location = Some(loop.ref_location),
                  !.track = LineString(loop.gt_enu) ]
    ELSE [ fields EXCEPT
             !.ground_truth = MetaGroundTruth(m),
             !.ref_location =
                 IF MetaGroundTruth(m).tag = "dict"
                 THEN Some(MetaGroundTruth(m).v) ELSE None,
             !.track = None ]

NoCall == [op |-> "none", args |-> <<>>, result |-> Ok(None), read |-> <<>>]

Dataset_init ==
    /\ pc = "new"
    /\ LET self == Constructed(meta, gt_files)
       IN  /\ pc' = self.pc
           /\ intermediate_frequency' = self.intermediate_frequency
           /\ filenames' = self.filenames
           /\ timestamps' = self.timestamps
           /\ temperatures' = self.temperatures
           /\ pressures' = self.pressures
           /\ ground_truth' = self.ground_truth
           /\ ref_location' = self.ref_location
           /\ track' = self.track
    /\ last' = NoCall
    /\ UNCHANGED inputs

-----------------------------------------------------------------------------
(* float32 arithmetic: <<m, e>> is m / 2^e *)

\* The same value with the smallest exponent.
RECURSIVE Canon(_, _)
Canon(m, e) ==
    IF m = 0 THEN <<0, 0>>
    ELSE IF e > 0 /\ m % 2 = 0 THEN Canon(m \div 2, e - 1)
    ELSE <<m, e>>

\* a / d rounded to the nearest integer, ties to even (a >= 0, d > 0).
RoundHalfEven(a, d) ==
    LET q == a \div d
        r == a % d
    IN  IF 2 * r > d \/ (2 * r = d /\ q % 2 = 1) THEN q + 1 ELSE q

\* Least e >= from with a * 2^e >= 2^(precision - 1) * n.
RECURSIVE QuotientExponent(_, _, _)
QuotientExponent(a, n, from) ==
    IF a * Pow2(from) >= Pow2(Float32Precision - 1) * n THEN from
    ELSE QuotientExponent(a, n, from + 1)

\* float32(s) / n for integers 0 < |s| < 2^24 * n, or s = 0.
Float32Div(s, n) ==
    IF s = 0 THEN <<0, 0>>
    ELSE LET a == Abs(s)
             e == QuotientExponent(a, n, 0)
             q == RoundHalfEven(a * Pow2(e), n)
         IN  Canon(IF s < 0 THEN -q ELSE q, e)

\* Least k >= from with a < 2^(precision + k).
RECURSIVE DroppedBits(_, _)
DroppedBits(a, from) ==
    IF a < Pow2(Float32Precision) * Pow2(from) THEN from
    ELSE DroppedBits(a, from + 1)

\* The float32 nearest to num / 2^e.
Float32Round(num, e) ==
    LET a == Abs(num)
        k == DroppedBits(a, 0)
        q == RoundHalfEven(a, Pow2(k))
        m == IF num < 0 THEN -q ELSE q
    IN  IF e >= k THEN Canon(m, e - k) ELSE <<m * Pow2(k - e), 0>>

\* x - y in float32.
Float32Sub(x, y) ==
    LET e == IF x[2] > y[2] THEN x[2] ELSE y[2]
    IN  Float32Round(x[1] * Pow2(e - x[2]) - y[1] * Pow2(e - y[2]), e)

\* astype(np.float32) of an int8.
Float32OfInt(i) == <<i, 0>>

-----------------------------------------------------------------------------
(* get_snapshot: reading and decoding, lines 197-212 *)

\* np.fromfile(filename, dtype='>u1', count=count): at most count bytes.
fromfile(content, count) == SubSeq(content, 1, Min(Len(content), count))

Bit(byte, j) == (byte \div Pow2(j)) % 2

\* Bit 7 of each byte first.
unpackbits_big(bytes) ==
    [i \in 1 .. BitsPerByte * Len(bytes) |->
        Bit(bytes[((i - 1) \div BitsPerByte) + 1],
            BitsPerByte - 1 - ((i - 1) % BitsPerByte))]

\* np.unpackbits(bytes, bitorder='little'): bit 0 of each byte first.
unpackbits(bytes) ==
    [i \in 1 .. BitsPerByte * Len(bytes) |->
        Bit(bytes[((i - 1) \div BitsPerByte) + 1], (i - 1) % BitsPerByte)]

\* Two's complement int8 of an integer.
Int8(x) == ((x + 128) % 256) - 128

\* -2 * signal.astype(np.int8) + 1
Bipolar(bits) == [i \in 1 .. Len(bits) |-> Int8(Int8(-2 * Int8(bits[i])) + 1)]

RECURSIVE SumSeq(_, _)
SumSeq(q, n) == IF n = 0 THEN 0 ELSE SumSeq(q, n - 1) + q[n]

\* np.mean of a float32 array of +-1: the sum is exact, the division rounds.
Mean(signal) == Float32Div(SumSeq(signal, Len(signal)), Len(signal))

\* The conversion to float32 without the subtraction.
Normalized_MeanKept(signal) == [i \in 1 .. Len(signal) |-> Float32OfInt(signal[i])]

\* signal.astype(np.float32) - np.mean(signal); the empty array stays empty.
Normalized(signal) ==
    IF Len(signal) = 0 THEN <<>>
    ELSE LET mean == Mean(signal)
             minus == [x \in {-1, 1} |-> Float32Sub(Float32OfInt(x), mean)]
         IN  [i \in 1 .. Len(signal) |-> minus[signal[i]]]

\* Lines 199-212 on the content of the file.
Decode(content, normalize) ==
    LET signal_bytes == fromfile(content, BytesPerSnapshot)
        signal == Bipolar(unpackbits(signal_bytes))
    IN  IF normalize
        THEN [dtype |-> "float32", data |-> Normalized(signal)]
        ELSE [dtype |-> "int8", data |-> signal]

\* self._filenames[idx] on a list of n names: the position, or -1 for IndexError.
ListIndex(n, idx) ==
    IF 0 <= idx /\ idx < n THEN idx
    ELSE IF -n <= idx /\ idx < 0 THEN idx + n
    ELSE -1

IndexRange == -(MaxN + 1) .. (MaxN + 1)

Call(op, args, result, read) ==
    [op |-> op, args |-> args, result |-> result, read |-> read]

\* What get_snapshot(idx, normalize) does on the object and the file content.
Snapshot(names, content, idx, normalize) ==
    IF names.tag = "unset"
    THEN Call("get_snapshot", <<idx, normalize>>, Raised("AttributeError"), <<>>)
    ELSE IF names.tag = "None"
    THEN Call("get_snapshot", <<idx, normalize>>, Raised("TypeError"), <<>>)
    ELSE LET pos == ListIndex(Len(names.v), idx)
         IN  IF pos < 0
             THEN Call("get_snapshot", <<idx, normalize>>,
                       [kind |-> "IndexOutOfRange", v |-> None], <<>>)
             ELSE Call("get_snapshot", <<idx, normalize>>,
                       Ok(Decode(content, normalize)), <<names.v[pos + 1]>>)

\* A snapshot call that drops the first file name.
get_snapshot_Consuming ==
    /\ pc = "ready"
    /\ \E idx \in IndexRange, normalize \in BOOLEAN :
          last' = Snapshot(filenames, disk, idx, normalize)
    /\ filenames' = IF IsSome(filenames) /\ Len(filenames.v) > 0
                    THEN Some(Tail(filenames.v)) ELSE filenames
    /\ UNCHANGED <<inputs, pc, intermediate_frequency, timestamps, temperatures,
                   pressures, ground_truth, ref_location, track>>

get_snapshot ==
    /\ pc = "ready"
    /\ \E idx \in IndexRange, normalize \in BOOLEAN :
          last' = Snapshot(filenames, disk, idx, normalize)
    /\ UNCHANGED <<inputs, pc, attrs>>

-----------------------------------------------------------------------------
(* Exact rationals <<num, den>>, den > 0, in lowest terms *)

Rat(n, d) ==
    LET g == Gcd(Abs(n), Abs(d))
    IN  IF d < 0 THEN <<(-n) \div g, (-d) \div g>> ELSE <<n \div g, d \div g>>
RInt(i) == <<i, 1>>
RAdd(a, b) ==
    LET l == (a[2] \div Gcd(a[2], b[2])) * b[2]
    IN  Rat(a[1] * (l \div a[2]) + b[1] * (l \div b[2]), l)
RNeg(a) == <<-a[1], a[2]>>
RSub(a, b) == RAdd(a, RNeg(b))
RMul(a, b) ==
    LET g1 == Gcd(Abs(a[1]), b[2])
        g2 == Gcd(Abs(b[1]), a[2])
    IN  Rat((a[1] \div g1) * (b[1] \div g2), (a[2] \div g2) * (b[2] \div g1))
RDiv(a, b) == RMul(a, Rat(b[2], b[1]))
RLess(a, b) == a[1] * b[2] < b[1] * a[2]
RLeq(a, b) == a[1] * b[2] <= b[1] * a[2]

\* Floor of the square root; the lengths of the model are perfect squares.
RECURSIVE SqrtBetween(_, _, _)
SqrtBetween(n, lo, hi) ==
    IF lo = hi THEN lo
    ELSE LET mid == (lo + hi + 1) \div 2
         IN  IF mid * mid <= n THEN SqrtBetween(n, mid, hi)
             ELSE SqrtBetween(n, lo, mid - 1)
Sqrt(n) == SqrtBetween(n, 0, Min(n, 46340))

-----------------------------------------------------------------------------
(* GEOS linear referencing behind shapely's project and interpolate *)

Dot(u, v) == u[1] * v[1] + u[2] * v[2]
Cross(u, v) == u[1] * v[2] - u[2] * v[1]
Minus(u, v) == <<u[1] - v[1], u[2] - v[2]>>
Len2(u) == Dot(u, u)

\* LineSegment::distance, squared: distance of p from the segment a-b.
SegmentDistance2(a, b, p) ==
    LET ab == Minus(b, a)
        ap == Minus(p, a)
    IN  IF a = b THEN RInt(Len2(ap))
        ELSE IF Dot(ap, ab) <= 0 THEN RInt(Len2(ap))
        ELSE IF Dot(ap, ab) >= Len2(ab) THEN RInt(Len2(Minus(p, b)))
        ELSE Rat(Cross(ab, ap) * Cross(ab, ap), Len2(ab))

\* The projection on the line through a and b, not clamped to the segment.
SegmentNearestMeasure_Unclamped(a, b, p, start) ==
    IF a = b THEN start
    ELSE RAdd(start, Rat(Dot(Minus(p, a), Minus(b, a)), Sqrt(Len2(Minus(b, a)))))

\* LengthIndexOfPoint::segmentNearestMeasure: the length along the line of
\* the point of segment a-b nearest to p, the segment starting at length start.
SegmentNearestMeasure(a, b, p, start) ==
    LET ab == Minus(b, a)
        ap == Minus(p, a)
        length == Sqrt(Len2(ab))
    IN  IF a = b THEN start
        ELSE IF Dot(ap, ab) <= 0 THEN start
        ELSE IF Dot(ap, ab) <= Len2(ab)
             THEN RAdd(start, Rat(Dot(ap, ab), length))
        ELSE RAdd(start, RInt(length))

\* LengthIndexOfPoint::indexOfFromStart over the first n segments.
RECURSIVE ProjectScan(_, _, _)
ProjectScan(line, p, n) ==
    IF n = 0
    THEN [found |-> FALSE, minDistance |-> RInt(0), ptMeasure |-> RInt(0),
          segmentStartMeasure |-> RInt(0)]
    ELSE LET st == ProjectScan(line, p, n - 1)
             a == line[n]
             b == line[n + 1]
             segDistance == SegmentDistance2(a, b, p)
             segMeasureToPt == SegmentNearestMeasure(a, b, p, st.segmentStartMeasure)
             next == RAdd(st.segmentStartMeasure, RInt(Sqrt(Len2(Minus(b, a)))))
         IN  IF ~st.found \/ RLess(segDistance, st.minDistance)
             THEN [found |-> TRUE, minDistance |-> segDistance,
                   ptMeasure |-> segMeasureToPt, segmentStartMeasure |-> next]
             ELSE [st EXCEPT !.segmentStartMeasure = next]

\* LineString.project(Point(p)): length along the line of the nearest point.
project(line, p) == ProjectScan(line, p, Len(line) - 1).ptMeasure

\* LengthLocationMap::getLocationForward from segment i on, then the
\* coordinate of the location.
RECURSIVE InterpolateScan(_, _, _, _)
InterpolateScan(line, length, i, totalLength) ==
    IF i > Len(line) - 1
    THEN <<RInt(line[Len(line)][1]), RInt(line[Len(line)][2])>>
    ELSE LET a == line[i]
             b == line[i + 1]
             segLen == RInt(Sqrt(Len2(Minus(b, a))))
         IN  IF RLess(length, RAdd(totalLength, segLen))
             THEN LET frac == RDiv(RSub(length, totalLength), segLen)
                  IN  << RAdd(RInt(a[1]), RMul(RInt(b[1] - a[1]), frac)),
                         RAdd(RInt(a[2]), RMul(RInt(b[2] - a[2]), frac)) >>
             ELSE InterpolateScan(line, length, i + 1, RAdd(totalLength, segLen))

\* LineString.interpolate(length): the point at that length along the line.
interpolate(line, length) ==
    IF RLeq(length, RInt(0)) THEN <<RInt(line[1][1]), RInt(line[1][2])>>
    ELSE InterpolateScan(line, length, 1, RInt(0))

-----------------------------------------------------------------------------
(* get_error, lines 295-328 *)

TestPoints ==
    { Point(0, 0), Point(5, 50), Point(0, 150), Point(0, 100),
      Point(75, 100), Point(40, 60) }

\* Square of np.linalg.norm of a vector with rational coordinates.
Norm2(v) == RAdd(RMul(v[1], v[1]), RMul(v[2], v[2]))

\* The error taken from the east component alone.
Error2_EastOnly(ref, trk, latitude, longitude) ==
    LET enu == geodetic2enu(latitude, longitude, 0, ref.latitude, ref.longitude, 0)
    IN  RInt(enu[1] * enu[1])

\* Lines 302-323: the squared horizontal error of a test location.
Error2(ref, trk, latitude, longitude) ==
    LET enu == geodetic2enu(latitude, longitude, 0, ref.latitude, ref.longitude, 0)
        pos_enu == <<enu[1], enu[2]>>
    IN  IF trk.tag = "LineString"
        THEN LET nearest_point == interpolate(trk.v, project(trk.v, pos_enu))
             IN  Norm2(<<RSub(nearest_point[1], RInt(pos_enu[1])),
                         RSub(nearest_point[2], RInt(pos_enu[2]))>>)
        ELSE Norm2(<<RInt(enu[1]), RInt(enu[2])>>)

\* What get_error(latitude, longitude) does.  Exact arithmetic yields no
\* NaN, so the branch that returns infinity is not taken.
Error(ref, trk, latitude, longitude) ==
    IF ref.tag = "unset"
    THEN Call("get_error", <<latitude, longitude>>, Raised("AttributeError"), <<>>)
    ELSE IF ref.tag = "None"
    THEN Call("get_error", <<latitude, longitude>>, Raised("TypeError"), <<>>)
    ELSE Call("get_error", <<latitude, longitude>>,
              Ok(Error2(ref.v, trk, latitude, longitude)), <<>>)

get_error ==
    /\ pc = "ready"
    /\ \E q \in TestPoints :
          last' = Error(ref_location, track, q.latitude, q.longitude)
    /\ UNCHANGED <<inputs, pc, attrs>>

-----------------------------------------------------------------------------
(* Accessors, lines 159-169 and 214-275 *)

\* Reading self._name: the stored value, or AttributeError if never assigned.
Attribute(name, value) ==
    IF value.tag = "unset"
    THEN Call(name, <<>>, Raised("AttributeError"), <<>>)
    ELSE Call(name, <<>>, Returned(value), <<>>)

\* len(self._filenames)
Size(names) ==
    IF names.tag = "unset" THEN Call("get_size", <<>>, Raised("AttributeError"), <<>>)
    ELSE IF names.tag = "None" THEN Call("get_size", <<>>, Raised("TypeError"), <<>>)
    ELSE Call("get_size", <<>>, Ok(Len(names.v)), <<>>)

get_size ==
    /\ pc = "ready"
    /\ last' = Size(filenames)
    /\ UNCHANGED <<inputs, pc, attrs>>

get_ground_truth ==
    /\ pc = "ready"
    /\ last' = Attribute("get_ground_truth", ground_truth)
    /\ UNCHANGED <<inputs, pc, attrs>>

get_intermediate_frequency ==
    /\ pc = "ready"
    /\ last' = Attribute("get_intermediate_frequency", intermediate_frequency)
    /\ UNCHANGED <<inputs, pc, attrs>>

get_timestamps ==
    /\ pc = "ready"
    /\ last' = Attribute("get_timestamps", timestamps)
    /\ UNCHANGED <<inputs, pc, attrs>>

get_temperatures ==
    /\ pc = "ready"
    /\ last' = Attribute("get_temperatures", temperatures)
    /\ UNCHANGED <<inputs, pc, attrs>>

get_pressures ==
    /\ pc = "ready"
    /\ last' = Attribute("get_pressures", pressures)
    /\ UNCHANGED <<inputs, pc, attrs>>

-----------------------------------------------------------------------------
(* Specification *)

NewObject ==
    /\ pc = "new"
    /\ intermediate_frequency = Unset
    /\ filenames = Unset
    /\ timestamps = Unset
    /\ temperatures = Unset
    /\ pressures = Unset
    /\ ground_truth = Unset
    /\ ref_location = Unset
    /\ track = Unset
    /\ last = NoCall

\* Every meta.json, without ground truth files.
InitMeta ==
    /\ meta \in MetaInputs
    /\ gt_files = <<>>
    /\ disk = ZeroFile

\* Every sequence of ground truth files, with a complete meta.json.
InitGroundTruth ==
    /\ meta = FullMeta
    /\ gt_files \in GtInputs
    /\ disk = ZeroFile

\* Every content of the snapshot file, with a complete meta.json.
InitDisk ==
    /\ meta = FullMeta
    /\ gt_files = <<>>
    /\ disk \in FileInputs

Init ==
    /\ InitMeta \/ InitGroundTruth \/ InitDisk
    /\ NewObject

Next ==
    \/ Dataset_init
    \/ get_size
    \/ get_snapshot
    \/ get_ground_truth
    \/ get_intermediate_frequency
    \/ get_timestamps
    \/ get_temperatures
    \/ get_pressures
    \/ get_error

Spec == Init /\ [][Next]_vars

-----------------------------------------------------------------------------
(* Properties: snapshots *)

SnapshotRead == last.op = "get_snapshot" /\ last.read # <<>>

\* C1: with N file names, get_snapshot of an index outside 0..N-1 reports
\* IndexOutOfRange and reads no file; only an index in 0..N-1 reads a file.
C1_OutsideRangeReadsNothing ==
    (last.op = "get_snapshot" /\ IsSome(filenames)) =>
        LET idx == last.args[1]
            n == Len(filenames.v)
        IN  /\ (idx < 0 \/ idx >= n) =>
                 (last.result.kind = "IndexOutOfRange" /\ last.read = <<>>)
            /\ last.read # <<>> => (0 <= idx /\ idx < n)

\* C2: a snapshot file shorter than the snapshot length always ends in
\* TruncatedInputError, never in a sample sequence.
C2_ShortFileIsTruncatedInputError ==
    (SnapshotRead /\ Len(disk) < BytesPerSnapshot) =>
        (last.result.kind = "raise" /\ last.result.v = "TruncatedInputError")

\* The byte that little-endian bit order packs from eight samples.
RECURSIVE PackedByte(_, _, _)
PackedByte(samples, k, j) ==
    IF j = BitsPerByte THEN 0
    ELSE ((1 - samples[BitsPerByte * k + j + 1]) \div 2) * Pow2(j)
         + PackedByte(samples, k, j + 1)

\* C3: a full-length buffer decodes without normalization to 8 samples per
\* byte, each -1 or +1, sample 8k+j being 1 - 2 * (bit j of byte k), bit 0
\* first: the samples pack back to the bytes, and a byte 0x01 gives -1
\* followed by seven +1.
C3_BitOrderAndBipolar ==
    (SnapshotRead /\ ~last.args[2] /\ Len(disk) = BytesPerSnapshot) =>
        /\ last.result.kind = "ok"
        /\ last.result.v.dtype = "int8"
        /\ LET out == last.result.v.data
           IN  /\ Len(out) = BitsPerByte * BytesPerSnapshot
               /\ \A i \in 1 .. Len(out) : out[i] \in {-1, 1}
               /\ \A k \in 0 .. BytesPerSnapshot - 1 :
                     /\ PackedByte(out, k, 0) = disk[k + 1]
                     /\ disk[k + 1] = 1 =>
                           /\ out[BitsPerByte * k + 1] = -1
                           /\ \A j \in 1 .. BitsPerByte - 1 :
                                 out[BitsPerByte * k + j + 1] = 1

C3_Witness ==
    /\ SnapshotRead /\ ~last.args[2] /\ Len(disk) = BytesPerSnapshot
    /\ disk[1] = 1
    /\ last.result.kind = "ok"
    /\ last.result.v.data[1] = -1

\* The raw samples of the file that was read.
RawSamples == Decode(disk, FALSE).data

NormalizedRead ==
    SnapshotRead /\ last.args[2] /\ Len(disk) = BytesPerSnapshot

\* C4 as stated: the normalized samples are exactly the raw samples minus
\* their mean, n * out[i] = n * raw[i] - sum(raw).
C4_ExactlyMeanFree ==
    NormalizedRead =>
        LET out == last.result.v.data
            raw == RawSamples
            n == Len(raw)
            total == SumSeq(raw, n)
        IN  /\ Len(out) = n
            /\ \A i \in 1 .. n :
                  n * out[i][1] = (n * raw[i] - total) * Pow2(out[i][2])

\* |num| / (den * 2^e) <= 2^-20, for den > 0.
Within(num, den, e) ==
    IF e >= 20 THEN Abs(num) <= den * Pow2(e - 20)
    ELSE Abs(num) * Pow2(20 - e) <= den

MaxExponent(out) ==
    CHOOSE e \in { out[i][2] : i \in 1 .. Len(out) } :
        \A i \in 1 .. Len(out) : out[i][2] <= e

\* Sum of the first n float32 values in units of 2^-e.
RECURSIVE ScaledSum(_, _, _)
ScaledSum(out, n, e) ==
    IF n = 0 THEN 0
    ELSE ScaledSum(out, n - 1, e) + out[n][1] * Pow2(e - out[n][2])

\* C4, amended: the normalized sequence has the length of the raw one, each
\* element is within 2^-20 (less than 1e-6) of the raw sample minus the mean
\* of the raw samples, and the mean of the normalized samples is within
\* 2^-20 of zero.
C4_MeanFreeWithinTolerance ==
    NormalizedRead =>
        /\ last.result.kind = "ok"
        /\ last.result.v.dtype = "float32"
        /\ LET out == last.result.v.data
               raw == RawSamples
               n == Len(raw)
               total == SumSeq(raw, n)
           IN  /\ Len(out) = n
               /\ \A i \in 1 .. n :
                     Within(n * out[i][1] - (n * raw[i] - total) * Pow2(out[i][2]),
                            n, out[i][2])
               /\ Within(ScaledSum(out, n, MaxExponent(out)), n, MaxExponent(out))

C4_Witness ==
    /\ NormalizedRead
    /\ disk[1] = 1
    /\ last.result.kind = "ok"
    /\ last.result.v.data[1] # last.result.v.data[2]

-----------------------------------------------------------------------------
(* Properties: ground truth *)

\* The nodes of the first n ground truth files, in discovery order.
RECURSIVE AllNodes(_, _)
AllNodes(files, n) ==
    IF n = 0 THEN <<>> ELSE AllNodes(files, n - 1) \o files[n].points

\* East and north of a geodetic point seen from a reference point.
Local(q, ref) ==
    LET enu == geodetic2enu(q.latitude, q.longitude, 0,
                            ref.latitude, ref.longitude, 0)
    IN  <<enu[1], enu[2]>>

ErrorOnTrack ==
    /\ pc = "ready" /\ track.tag = "LineString"
    /\ last.op = "get_error" /\ last.result.kind = "ok"

\* Squared distance of p from the point of segment a-b whose projection
\* parameter is clamped to [0, 1].
ClampedDistance2(a, b, p) ==
    LET ab == Minus(b, a)
        t == IF a = b THEN RInt(0) ELSE Rat(Dot(Minus(p, a), ab), Len2(ab))
        c == IF RLess(t, RInt(0)) THEN RInt(0)
             ELSE IF RLess(RInt(1), t) THEN RInt(1) ELSE t
    IN  Norm2(<< RSub(RAdd(RInt(a[1]), RMul(c, RInt(ab[1]))), RInt(p[1])),
                 RSub(RAdd(RInt(a[2]), RMul(c, RInt(ab[2]))), RInt(p[2])) >>)

\* C5: on a track, the error is the least distance, over the segments of the
\* local polyline, from the local test point to the clamped projection on the
\* segment; (50, 5) is 5 and (150, 0) is 50 away from the segment
\* (0,0)-(100,0).  Distances are compared as squares.
C5_NearestOnPolyline ==
    ErrorOnTrack =>
        LET line == track.v
            p == Local(Point(last.args[1], last.args[2]), ref_location.v)
            d == last.result.v
        IN  /\ \E i \in 1 .. Len(line) - 1 : d = ClampedDistance2(line[i], line[i + 1], p)
            /\ \A i \in 1 .. Len(line) - 1 :
                  RLeq(d, ClampedDistance2(line[i], line[i + 1], p))
            /\ line = << <<0, 0>>, <<100, 0>> >> =>
                  /\ p = <<50, 5>> => d = RInt(5 * 5)
                  /\ p = <<150, 0>> => d = RInt(50 * 50)

C5_Witness ==
    /\ ErrorOnTrack
    /\ track.v = << <<0, 0>>, <<100, 0>> >>
    /\ Local(Point(last.args[1], last.args[2]), ref_location.v) = <<150, 0>>
    /\ last.result.v = RInt(2500)

\* C6: on a track, the reference point is the first node of the first file,
\* and every node of every file is converted with that one reference, which
\* is also the reference of the error queries.
C6_OneReferenceForAllFiles ==
    (pc = "ready" /\ track.tag = "LineString") =>
        LET nodes == AllNodes(gt_files, Len(gt_files))
        IN  /\ ref_location = Some(nodes[1])
            /\ track.v = [k \in 1 .. Len(nodes) |-> Local(nodes[k], nodes[1])]

ErrorOnPoint ==
    /\ pc = "ready" /\ ground_truth.tag = "dict"
    /\ last.op = "get_error"

\* C7: a static ground truth is its own reference point and has no polyline;
\* the error is the norm of the local east and north of the test point, and
\* is 0 at the reference point.  Distances are compared as squares.
C7_PointGroundTruth ==
    (pc = "ready" /\ ground_truth.tag = "dict") =>
        /\ ref_location = Some(ground_truth.v)
        /\ track = None
        /\ last.op = "get_error" =>
              /\ last.result.kind = "ok"
              /\ LET q == Point(last.args[1], last.args[2])
                     p == Local(q, ground_truth.v)
                 IN  /\ last.result.v = RInt(p[1] * p[1] + p[2] * p[2])
                     /\ q = ground_truth.v => last.result.v = RInt(0)

C7_Witness ==
    /\ ErrorOnPoint
    /\ Point(last.args[1], last.args[2]) = ground_truth.v
    /\ last.result.kind = "ok"
    /\ last.result.v = RInt(0)

\* C10: after construction from one or more files, get_ground_truth returns
\* the nodes of all files in discovery order, as many as the polyline has
\* vertices, and the reference point is the first of them.
C10_GroundTruthIsWholeTrack ==
    (pc = "ready" /\ track.tag = "LineString") =>
        /\ ground_truth.tag = "list"
        /\ ground_truth.v = AllNodes(gt_files, Len(gt_files))
        /\ Len(ground_truth.v) = Len(track.v)
        /\ ref_location = Some(ground_truth.v[1])
        /\ last.op = "get_ground_truth" =>
              /\ last.result.kind = "return"
              /\ last.result.v = ground_truth

-----------------------------------------------------------------------------
(* Properties: meta data and immutability *)

\* The attribute holds the value of the key, or None when the key is missing.
FieldStored(attr, m, key) ==
    IF IsSome(m[key])
    THEN attr.tag = "value" /\ attr.v = m[key].v
    ELSE attr.tag = "None"

TimestampsStored(attr, m) ==
    IF IsSome(m.timestamp)
    THEN /\ attr.tag = "value"
         /\ Len(attr.v) = Len(m.timestamp.v)
         /\ \A k \in 1 .. Len(attr.v) : attr.v[k] = datetime64(m.timestamp.v[k])
    ELSE attr.tag = "None"

Returns(op, attr) ==
    last.op = op => (last.result.kind = "return" /\ last.result.v = attr)

\* C8: each of intermediate_frequency, timestamps, temperatures, pressures
\* is None exactly when its key is missing from meta.json and the stored
\* value otherwise, whatever other keys are missing; its accessor returns
\* it; and missing keys alone never make __init__ or an accessor raise.
C8_MissingFieldsAreNone ==
    (meta.tag = "json" /\ pc # "new") =>
        /\ pc = "failed" => (TimestampsRaise(meta) \/ gt_files # <<>>)
        /\ pc = "ready" =>
              /\ FieldStored(intermediate_frequency, meta, "intermediate_frequency")
              /\ TimestampsStored(timestamps, meta)
              /\ FieldStored(temperatures, meta, "temperature")
              /\ FieldStored(pressures, meta, "pressure")
              /\ Returns("get_intermediate_frequency", intermediate_frequency)
              /\ Returns("get_timestamps", timestamps)
              /\ Returns("get_temperatures", temperatures)
              /\ Returns("get_pressures", pressures)

C8_Witness ==
    /\ pc = "ready" /\ meta.tag = "json"
    /\ ~IsSome(meta.temperature) /\ ~IsSome(meta.file) /\ IsSome(meta.pressure)
    /\ last.op = "get_temperatures"
    /\ last.result.kind = "return"
    /\ last.result.v = None

\* C9: after construction, no call changes the ground truth, the reference
\* point, the polyline or the meta data: they stay what __init__ made of the
\* directory, the accessors return them, and get_error is a function of its
\* arguments and of them alone.
C9_ReadOnlyAfterConstruction ==
    pc = "ready" =>
        LET self == Constructed(meta, gt_files)
        IN  /\ intermediate_frequency = self.intermediate_frequency
            /\ filenames = self.filenames
            /\ timestamps = self.timestamps
            /\ temperatures = self.temperatures
            /\ pressures = self.pressures
            /\ ground_truth = self.ground_truth
            /\ ref_location = self.ref_location
            /\ track = self.track
            /\ last.op = "get_ground_truth" =>
                  last = Attribute("get_ground_truth", self.ground_truth)
            /\ last.op = "get_timestamps" =>
                  last = Attribute("get_timestamps", self.timestamps)
            /\ last.op = "get_temperatures" =>
                  last = Attribute("get_temperatures", self.temperatures)
            /\ last.op = "get_pressures" =>
                  last = Attribute("get_pressures", self.pressures)
            /\ last.op = "get_intermediate_frequency" =>
                  last = Attribute("get_intermediate_frequency",
                                   self.intermediate_frequency)
            /\ last.op = "get_error" =>
                  last = Error(self.ref_location, self.track,
                               last.args[1], last.args[2])

C9_Witness ==
    /\ pc = "ready"
    /\ track.tag = "LineString"
    /\ last.op = "get_snapshot" /\ last.read # <<>>

====
